---- MODULE Spec2Model ----
(***************************************************************************)
(* Model of src/main.py: the Telegram -> Dailymotion relay.                *)
(*                                                                         *)
(* Every handle_media invocation is one job.  All jobs run as tasks of one *)
(* asyncio event loop: a task runs atomically from one `await` that really *)
(* suspends to the next one.  The `requests` calls of DailymotionUploader  *)
(* are synchronous, so while one of them is in flight the task keeps the   *)
(* loop (variable blocker) and no other task runs.                         *)
(***************************************************************************)
EXTENDS Naturals, Sequences, FiniteSets

\* ------------------------------------------------------------------ bounds
NumJobs == 2
MaxCaptionLen == 256
ShortCaptionLen == 2
MaxFloodWait == 3

\* ------------------------------------------------------- program constants
max_retries == 3
MaxTitleLen == 255
FloodMargin == 2
RpcBackoff == 1

Jobs == 1..NumJobs
None == <<"None">>
\* the n-th token handed out by the token endpoint
Token(n) == <<"token", n>>

\* ------------------------------------------------------------------ strings
\* A string is a sequence of one-character strings.
Chars == <<"a", "b", "c">>
MkStr(n) == [i \in 1..n |-> Chars[(i % 3) + 1]]

StartsWith(s, p) == Len(s) >= Len(p) /\ SubSeq(s, 1, Len(p)) = p
EndsWith(s, p) == Len(s) >= Len(p) /\ SubSeq(s, Len(s) - Len(p) + 1, Len(s)) = p
Min(a, b) == IF a < b THEN a ELSE b
\* Python's s[:n]
Prefix(s, n) == SubSeq(s, 1, Min(Len(s), n))
\* Python truthiness of an Optional[str]
Truthy(s) == s # None /\ Len(s) > 0

VideoPrefix == <<"v", "i", "d", "e", "o", "/">>
VideoExts == { <<".", "m", "p", "4">>, <<".", "m", "k", "v">>,
               <<".", "a", "v", "i">>, <<".", "m", "o", "v">> }
DefaultTitle == << "U", "p", "l", "o", "a", "d", "e", "d", " ", "f", "r",
                  "o", "m", " ", "T", "e", "l", "e", "g", "r", "a", "m" >>
NoneStr == <<"N", "o", "n", "e">>

MimeMp4 == VideoPrefix \o <<"m", "p", "4">>
MimePdf == <<"a", "p", "p", "/", "p", "d", "f">>
MimeTypes == { MimeMp4, MimePdf, None }
NameMp4 == <<"x", ".", "m", "p", "4">>
NamePdf == <<"x", ".", "p", "d", "f">>
FileNames == { NameMp4, NamePdf }
Captions == { None, MkStr(ShortCaptionLen), MkStr(MaxCaptionLen) }

\* An inbound message that passes filters.video | filters.document.
Msg(doc, mime, name, cap) ==
    [ document |-> doc, mime_type |-> mime, file_name |-> name, caption |-> cap ]
VideoMessages == { Msg(FALSE, None, None, c) : c \in Captions }
DocumentMessages ==
    { Msg(TRUE, MimeMp4, NameMp4, c) : c \in Captions }
    \cup { Msg(TRUE, mt, n, None) : mt \in MimeTypes, n \in FileNames }
Messages == VideoMessages \cup DocumentMessages

\* ------------------------------------------------------ handle_media, pure
\* line 154: message.document.mime_type.startswith(...) on a None mime type
ValidationRaises(m) == m.document /\ m.mime_type = None

\* lines 153-155
IsRejected(m) ==
    /\ m.document
    /\ ~StartsWith(m.mime_type, VideoPrefix)
    /\ ~(\E e \in VideoExts : EndsWith(m.file_name, e))

\* f"{x}" of an Optional[str]
Str(x) == IF x = None THEN NoneStr ELSE x

\* line 201: Python parses `a or b if c else d` as `(a or b) if c else d`
VideoTitle(m) ==
    IF m.document
    THEN (IF Truthy(m.caption) THEN m.caption ELSE Str(m.file_name))
    ELSE DefaultTitle

\* ------------------------------------------------- upload_video, pure parts
NeedsAuth_Always(tok) == TRUE

\* line 80: `not self.access_token`
NeedsAuth(tok) == tok = None

TruncateTitle_Whole(t) == t

\* line 90
TruncateTitle(t) == Prefix(t, MaxTitleLen)

NoUploadUrl_Never(video_data) == FALSE

\* line 106: `if not upload_url`
NoUploadUrl(video_data) == video_data.url = None

\* line 119
PublicUrl(video_id) == <<"https://www.dailymotion.com/video/">> \o Str(video_id)

\* ------------------------------------------------------ the outside world
\* Seconds a FloodWait asks for (e.value)
FloodWaits == { MaxFloodWait }
WaitTime_Margin(value) == FloodMargin
\* line 138
WaitTime(value) == value + FloodMargin
\* HTTP failures of the Dailymotion API (raise_for_status), with whether the
\* error text carries a quota / limit marker
AuthStatuses == { 401, 403 }
HttpErrors == [ status : AuthStatuses, quota : { FALSE } ]
              \cup [ status : { 500 }, quota : BOOLEAN ]
NoError == [ status |-> 0, quota |-> FALSE ]
\* The failed token exchange, as upload_video's caller sees it
AuthFailed == [ status |-> 400, quota |-> FALSE ]
\* JSON bodies of a 2xx answer of POST /me/videos
RemoteId == <<"x", "1">>
Endpoint == <<"u", "p">>
VideoData == [ id : { None, RemoteId }, url : { None, Endpoint } ]
NoVideoData == [ id |-> None, url |-> None ]

\* ------------------------------------------------------ safe_send_message
\* What telegram_client.send_message does on one attempt
TransportOutcomes ==
    { [ kind |-> "ok", value |-> 0 ], [ kind |-> "rpc", value |-> 0 ] }
    \cup [ kind : { "flood" }, value : FloodWaits ]
\* The answers to the attempts of one call; no attempt follows a successful
\* one, so the entries after it are fixed to "ok".
OutcomeSeqs ==
    { outs \in [ 1..max_retries -> TransportOutcomes ] :
        \A i \in 2..max_retries :
            outs[i - 1].kind = "ok" => outs[i].kind = "ok" }

RECURSIVE SendLoop(_, _, _, _)
\* lines 128-146: the for loop from iteration `attempt` on; slept is the time
\* spent in asyncio.sleep so far, trace the sends and sleeps in order
SendLoop(outs, attempt, slept, trace) ==
    IF attempt >= max_retries
    THEN [ result |-> "none", attempts |-> attempt, slept |-> slept,
           trace |-> trace ]
    ELSE LET o == outs[attempt + 1]
             t == Append(trace, <<"send", 0>>)
         IN  CASE o.kind = "ok" ->
                    [ result |-> "msg", attempts |-> attempt + 1,
                      slept |-> slept, trace |-> t ]
               [] o.kind = "flood" ->
                    SendLoop(outs, attempt + 1,
                             slept + WaitTime(o.value),
                             Append(t, <<"sleep", WaitTime(o.value)>>))
               [] OTHER ->
                    IF attempt = max_retries - 1
                    THEN [ result |-> "raise", attempts |-> attempt + 1,
                           slept |-> slept, trace |-> t ]
                    ELSE SendLoop(outs, attempt + 1, slept + RpcBackoff,
                                  Append(t, <<"sleep", RpcBackoff>>))

safe_send_message_Swallow(outs) ==
    LET r == SendLoop(outs, 0, 0, << >>)
    IN  IF r.result = "raise" THEN [ r EXCEPT !.result = "none" ] ELSE r

safe_send_message(outs) == SendLoop(outs, 0, 0, << >>)

\* ------------------------------------------------------------ user messages
\* A text shown to the user: which of the handler's literals it is, the
\* title, URL and exception text formatted into it, and whether it tells
\* the user that a quota or rate limit was reached.
Text(kind, title, url, cause, hint) ==
    [ kind |-> kind, title |-> title, url |-> url, cause |-> cause,
      limit_hint |-> hint ]
RejectText == Text("reject", None, None, None, FALSE)
DownloadingText == Text("downloading", None, None, None, FALSE)
UploadingText == Text("uploading", None, None, None, FALSE)
DownloadFailedText == Text("download_failed", None, None, None, FALSE)
UploadFailedText == Text("upload_failed", None, None, None, FALSE)
SuccessText(title, url) == Text("success", title, url, None, FALSE)
ErrorText(cause) == Text("error", None, None, cause, FALSE)

\* ------------------------------------------------------------------- state
VARIABLES
    job,            \* per handle_media invocation: its locals and position
    access_token,   \* dm_uploader.access_token
    files,          \* scratch files that exist on disk
    blocker,        \* the task that holds the event loop in a synchronous call
    tokenCalls,     \* POSTs to /oauth/token so far
    rejected,       \* tokens the service answered with 401/403
    call            \* one call of a pure function: its input and its result

vars == << job, access_token, files, blocker, tokenCalls, rejected, call >>

TempPath(j) == <<"tmp", j>>

\* No pure-function call is being observed
NoCall == [ fn |-> "", arg |-> None, returned |-> FALSE, out |-> None ]

NoMessage == Msg(FALSE, None, None, None)
NoText == Text("", None, None, None, FALSE)

\* pc, message .. video_url are handle_media's position and locals; bearer
\* and title_sent are upload_video's request headers and params; the rest
\* records what happened: accepted .. was_rejected and sent (the texts that
\* reached the user) for the whole job; auths, creates and puts (requests
\* issued to the token endpoint, to /me/videos and to the transfer endpoint),
\* created (the body of the create answer) and upload_error (the exception
\* upload_video swallowed) while the handler runs.
InitJob ==
    [ pc |-> "idle", message |-> NoMessage,
      site |-> "", text |-> NoText,
      temp_path |-> None, status_msg |-> FALSE,
      video_title |-> None, video_url |-> None,
      bearer |-> None, title_sent |-> None,
      created |-> NoVideoData, upload_error |-> NoError,
      accepted |-> FALSE, downloaded |-> "no", upload_called |-> FALSE,
      uploaded |-> FALSE, was_rejected |-> FALSE,
      auths |-> 0, creates |-> 0, puts |-> 0,
      sent |-> << >>, raised |-> FALSE, unlink_failed |-> FALSE ]

Init ==
    /\ job = [ j \in Jobs |-> InitJob ]
    /\ access_token = None
    /\ files = {}
    /\ blocker = {}
    /\ tokenCalls = 0
    /\ rejected = {}
    /\ call = NoCall

\* The event loop runs task j: no other task sits in a synchronous call.
Runnable(j) == blocker \subseteq {j}

RequestsCall_Awaited(j) == {}

\* A synchronous `requests` call keeps the event loop for the calling task.
RequestsCall(j) == {j}

\* ------------------------------------------- handle_media: leaving the try
\* lines 126-128: safe_send_message is entered and awaits its first send
BeginSend(r, site, text) ==
    [ r EXCEPT !.pc = "send", !.site = site, !.text = text ]

\* lines 218-224: the except handler of handle_media
OnException(r, cause) ==
    BeginSend([ r EXCEPT !.created = NoVideoData, !.upload_error = NoError ],
              "error", ErrorText(cause))

\* line 226
MustUnlink(temp_path, fs) == temp_path # None /\ temp_path \in fs

Unlink_Skipped(fs, path) == fs

\* line 228, when it succeeds
Unlink(fs, path) == fs \ { path }

\* os.unlink may raise (line 229); nothing else can go wrong in the finally
UnlinkOutcomes(r) == IF MustUnlink(r.temp_path, files) THEN BOOLEAN ELSE { TRUE }

\* lines 225-230: the finally clause; then the handler's frame is gone
Finally(j, r, raised) ==
    \E ok \in UnlinkOutcomes(r) :
        /\ job' = [ job EXCEPT ![j] =
                      [ InitJob EXCEPT !.pc = "done",
                                       !.accepted = r.accepted,
                                       !.downloaded = r.downloaded,
                                       !.upload_called = r.upload_called,
                                       !.uploaded = r.uploaded,
                                       !.was_rejected = r.was_rejected,
                                       !.sent = r.sent,
                                       !.raised = raised,
                                       !.unlink_failed = ~ok ] ]
        /\ files' = IF MustUnlink(r.temp_path, files) /\ ok
                    THEN Unlink(files, r.temp_path)
                    ELSE files

\* What handle_media does with the outcome of a safe_send_message call:
\* res is "msg" (a Message), "none" (None) or "raise" (RPCError).
AfterSend(j, r, res) ==
    CASE r.site = "status" /\ res = "msg" ->
            \* lines 170-184: temp file created, download_media awaited
            /\ job' = [ job EXCEPT ![j] =
                          [ r EXCEPT !.pc = "download", !.status_msg = TRUE,
                                     !.temp_path = TempPath(j) ] ]
            /\ files' = files \cup { TempPath(j) }
      [] r.site # "error" /\ res = "raise" ->
            /\ job' = [ job EXCEPT ![j] = OnException(r, "RPCError") ]
            /\ files' = files
      [] r.site = "error" /\ res = "raise" ->
            \* raised inside the except handler: leaves handle_media
            Finally(j, r, TRUE)
      [] OTHER ->
            \* lines 161, 172, 192 and the end of the try block
            Finally(j, r, FALSE)

\* safe_send_message returned or raised while task j awaited it.  Its awaits
\* (send_message, asyncio.sleep) suspend the task and touch no shared state,
\* so the call is one step of the job; outs are the transport's answers.
SendDone(j, outs) ==
    /\ Runnable(j)
    /\ job[j].pc = "send"
    /\ LET run == safe_send_message(outs)
           r == job[j]
       IN  IF run.result = "msg"
           THEN AfterSend(j, [ r EXCEPT !.sent = Append(@, r.text) ], "msg")
           ELSE AfterSend(j, r, run.result)
    /\ UNCHANGED << access_token, blocker, tokenCalls, rejected, call >>

\* ----------------------------------------------------------- handle_media
\* lines 149-168: a message arrives; the handler runs up to its first await
Receive(j, m) ==
    /\ Runnable(j)
    /\ job[j].pc = "idle"
    /\ LET r == [ job[j] EXCEPT !.message = m ]
       IN  job' = [ job EXCEPT ![j] =
                IF ValidationRaises(m) THEN OnException(r, "AttributeError")
                ELSE IF IsRejected(m)
                THEN BeginSend([ r EXCEPT !.was_rejected = TRUE ], "reject",
                               RejectText)
                ELSE BeginSend([ r EXCEPT !.accepted = TRUE ], "status",
                               DownloadingText) ]
    /\ UNCHANGED << access_token, files, blocker, tokenCalls, rejected, call >>

\* lines 180-198: download_media returned; edit_text("Uploading") awaited
DownloadOk(j) ==
    /\ Runnable(j)
    /\ job[j].pc = "download"
    /\ job' = [ job EXCEPT ![j].pc = "edit_uploading", ![j].downloaded = "ok",
                           ![j].text = UploadingText ]
    /\ UNCHANGED << access_token, files, blocker, tokenCalls, rejected, call >>

\* lines 185-191
DownloadFails(j) ==
    /\ Runnable(j)
    /\ job[j].pc = "download"
    /\ job' = [ job EXCEPT ![j] =
                  BeginSend([ job[j] EXCEPT !.downloaded = "failed" ],
                            "download_failed", DownloadFailedText) ]
    /\ UNCHANGED << access_token, files, blocker, tokenCalls, rejected, call >>

\* lines 83-100: the create request goes out with the cached token
BeginCreate(r, tok) ==
    [ r EXCEPT !.pc = "create", !.bearer = tok,
               !.title_sent = TruncateTitle(r.video_title),
               !.creates = @ + 1 ]

\* a refresh on every authorization failure, with no bound
UploadFailed_Reauth(r, err) ==
    IF err.status \in AuthStatuses
    THEN [ r EXCEPT !.pc = "authenticate" ]
    ELSE BeginSend([ r EXCEPT !.bearer = None, !.title_sent = None,
                              !.created = NoVideoData, !.upload_error = err ],
                   "upload_failed", UploadFailedText)

\* the create request issued again after a failure
UploadFailed_Reissue(r, err) ==
    IF r.creates < max_retries
    THEN [ r EXCEPT !.pc = "create", !.creates = @ + 1 ]
    ELSE BeginSend([ r EXCEPT !.bearer = None, !.title_sent = None,
                              !.created = NoVideoData, !.upload_error = err ],
                   "upload_failed", UploadFailedText)

\* upload_video returned None (lines 81, 108, 122), then lines 211-216
UploadFailed(r, err) ==
    BeginSend([ r EXCEPT !.bearer = None, !.title_sent = None,
                         !.created = NoVideoData, !.upload_error = err ],
              "upload_failed", UploadFailedText)

\* lines 198-202 and 78-81: the edit went through, upload_video is entered
EditUploadingOk(j) ==
    /\ Runnable(j)
    /\ job[j].pc = "edit_uploading"
    /\ LET r == [ job[j] EXCEPT !.sent = Append(@, job[j].text),
                               !.video_title = VideoTitle(job[j].message),
                               !.upload_called = TRUE ]
       IN  job' = [ job EXCEPT ![j] =
                IF NeedsAuth(access_token)
                THEN [ r EXCEPT !.pc = "authenticate" ]
                ELSE BeginCreate(r, access_token) ]
    /\ blocker' = RequestsCall(j)
    /\ UNCHANGED << access_token, files, tokenCalls, rejected, call >>

\* line 198 raises (FloodWait, MessageNotModified, ...)
EditUploadingFails(j) ==
    /\ Runnable(j)
    /\ job[j].pc = "edit_uploading"
    /\ job' = [ job EXCEPT ![j] = OnException(job[j], "RPCError") ]
    /\ UNCHANGED << access_token, files, blocker, tokenCalls, rejected, call >>

\* line 71: response.json().get("access_token") of the n-th exchange, whose
\* body may lack the field
JsonToken(n, has_field) == IF has_field THEN Token(n) ELSE None

\* lines 69-73: the token endpoint answers 2xx
AuthOk(j, has_field) ==
    /\ Runnable(j)
    /\ job[j].pc = "authenticate"
    /\ access_token' = JsonToken(tokenCalls + 1, has_field)
    /\ tokenCalls' = tokenCalls + 1
    /\ job' = [ job EXCEPT ![j] =
                  BeginCreate([ job[j] EXCEPT !.auths = @ + 1 ], access_token') ]
    /\ UNCHANGED << files, blocker, rejected, call >>

\* the token field assigned although the exchange failed
AuthFails_CachesToken(j) ==
    /\ Runnable(j)
    /\ job[j].pc = "authenticate"
    /\ tokenCalls' = tokenCalls + 1
    /\ access_token' = JsonToken(tokenCalls + 1, TRUE)
    /\ job' = [ job EXCEPT ![j] =
                  BeginSend([ job[j] EXCEPT !.auths = @ + 1,
                                            !.upload_error = AuthFailed ],
                            "upload_failed", UploadFailedText) ]
    /\ blocker' = {}
    /\ UNCHANGED << files, rejected, call >>

\* lines 74-76 and 80-81
AuthFails(j) ==
    /\ Runnable(j)
    /\ job[j].pc = "authenticate"
    /\ tokenCalls' = tokenCalls + 1
    /\ job' = [ job EXCEPT ![j] =
                  UploadFailed([ job[j] EXCEPT !.auths = @ + 1 ], AuthFailed) ]
    /\ blocker' = {}
    /\ UNCHANGED << access_token, files, rejected, call >>

\* The tokens an answer err to a request bearing tok rejects
Rejects(err, tok) ==
    IF err.status \in AuthStatuses /\ tok # None THEN { tok } ELSE {}

\* lines 101-116: POST /me/videos answers 2xx with body vd
CreateOk(j, vd) ==
    /\ Runnable(j)
    /\ job[j].pc = "create"
    /\ IF NoUploadUrl(vd)
       THEN /\ job' = [ job EXCEPT ![j] = UploadFailed(job[j], NoError) ]
            /\ blocker' = {}
       ELSE /\ job' = [ job EXCEPT ![j].pc = "put", ![j].created = vd,
                                   ![j].puts = @ + 1 ]
            /\ blocker' = blocker
    /\ UNCHANGED << access_token, files, tokenCalls, rejected, call >>

\* line 101 raises; lines 120-122
CreateFails(j, err) ==
    /\ Runnable(j)
    /\ job[j].pc = "create"
    /\ job' = [ job EXCEPT ![j] = UploadFailed(job[j], err) ]
    /\ rejected' = rejected \cup Rejects(err, job[j].bearer)
    /\ blocker' = {}
    /\ UNCHANGED << access_token, files, tokenCalls, call >>

\* lines 117-119 and 204-210: PUT answered 2xx, the success edit is awaited
PutOk(j) ==
    /\ Runnable(j)
    /\ job[j].pc = "put"
    /\ LET url == PublicUrl(job[j].created.id)
       IN  job' = [ job EXCEPT ![j] =
                [ job[j] EXCEPT !.pc = "edit_success", !.video_url = url,
                                !.bearer = None, !.title_sent = None,
                                !.uploaded = TRUE,
                                !.text = SuccessText(job[j].video_title, url) ] ]
    /\ blocker' = {}
    /\ UNCHANGED << access_token, files, tokenCalls, rejected, call >>

\* line 117 raises; lines 120-122
PutFails(j, err) ==
    /\ Runnable(j)
    /\ job[j].pc = "put"
    /\ job' = [ job EXCEPT ![j] = UploadFailed(job[j], err) ]
    /\ rejected' = rejected \cup Rejects(err, job[j].bearer)
    /\ blocker' = {}
    /\ UNCHANGED << access_token, files, tokenCalls, call >>

\* lines 205-210, then the finally clause
EditSuccessOk(j) ==
    /\ Runnable(j)
    /\ job[j].pc = "edit_success"
    /\ Finally(j, [ job[j] EXCEPT !.sent = Append(@, job[j].text) ], FALSE)
    /\ UNCHANGED << access_token, blocker, tokenCalls, rejected, call >>

\* line 205 raises
EditSuccessFails(j) ==
    /\ Runnable(j)
    /\ job[j].pc = "edit_success"
    /\ job' = [ job EXCEPT ![j] = OnException(job[j], "RPCError") ]
    /\ UNCHANGED << access_token, files, blocker, tokenCalls, rejected, call >>

Next ==
    \E j \in Jobs :
        \/ \E m \in Messages : Receive(j, m)
        \/ \E outs \in OutcomeSeqs : SendDone(j, outs)
        \/ DownloadOk(j)
        \/ DownloadFails(j)
        \/ EditUploadingOk(j)
        \/ EditUploadingFails(j)
        \/ \E has_field \in BOOLEAN : AuthOk(j, has_field)
        \/ AuthFails(j)
        \/ \E vd \in VideoData : CreateOk(j, vd)
        \/ \E err \in HttpErrors : CreateFails(j, err)
        \/ PutOk(j)
        \/ \E err \in HttpErrors : PutFails(j, err)
        \/ EditSuccessOk(j)
        \/ EditSuccessFails(j)

Spec == Init /\ [][Next]_vars

\* ------------------------------------- the pure functions, called directly
\* Titles given to upload_video: one of every length up to MaxCaptionLen
TitleInputs == { MkStr(n) : n \in 0..MaxCaptionLen }
\* What telegram_client.send_message may do on one attempt, with every wait
\* a FloodWait may carry up to MaxFloodWait
SendOutcomes ==
    { [ kind |-> "ok", value |-> 0 ], [ kind |-> "rpc", value |-> 0 ] }
    \cup [ kind : { "flood" }, value : 1..MaxFloodWait ]
\* The transport's answers to the attempts of one safe_send_message call
SendInputs == [ 1..max_retries -> SendOutcomes ]

Call(fn, arg) == [ fn |-> fn, arg |-> arg, returned |-> FALSE, out |-> None ]

InitCalls ==
    /\ job = [ j \in Jobs |-> InitJob ]
    /\ access_token = None
    /\ files = {}
    /\ blocker = {}
    /\ tokenCalls = 0
    /\ rejected = {}
    /\ call \in { Call("title", t) : t \in TitleInputs }
                \cup { Call("safe_send_message", outs) : outs \in SendInputs }

\* line 90: the title upload_video puts into the create request
TruncateCall ==
    /\ call.fn = "title" /\ ~call.returned
    /\ call' = [ call EXCEPT !.returned = TRUE, !.out = TruncateTitle(call.arg) ]
    /\ UNCHANGED << job, access_token, files, blocker, tokenCalls, rejected >>

\* lines 126-146: one call of safe_send_message, run to its end
SendCall ==
    /\ call.fn = "safe_send_message" /\ ~call.returned
    /\ call' = [ call EXCEPT !.returned = TRUE,
                             !.out = safe_send_message(call.arg) ]
    /\ UNCHANGED << job, access_token, files, blocker, tokenCalls, rejected >>

NextCalls == TruncateCall \/ SendCall

SpecCalls == InitCalls /\ [][NextCalls]_vars

\* ================================================================= claims
InFlight(j) == job[j].pc \notin { "idle", "done" }
Done(j) == job[j].pc = "done"
FinalKinds == { "reject", "download_failed", "upload_failed", "success", "error" }
IsFinal(t) == t.kind \in FinalKinds
Finals(j) == SelectSeq(job[j].sent, IsFinal)

\* C1: once handle_media has returned or raised, the scratch file it created
\* no longer exists, provided os.unlink did not fail.
C1_Cleanup ==
    \A j \in Jobs :
        (Done(j) /\ ~job[j].unlink_failed) => TempPath(j) \notin files

\* C1 case: a job that created and filled its scratch file ended by an
\* exception raised inside the except handler, and the file is gone.
C1_Witness ==
    \E j \in Jobs :
        /\ Done(j) /\ job[j].raised /\ job[j].downloaded = "ok"
        /\ ~job[j].unlink_failed /\ TempPath(j) \notin files

\* C2: every finished job has shown the user exactly one final status
\* message, and that message says success exactly when the upload succeeded.
C2_ExactlyOneFinal ==
    \A j \in Jobs :
        Done(j) =>
            /\ Len(Finals(j)) = 1
            /\ (Finals(j)[1].kind = "success") <=> job[j].uploaded

\* C3: an authorization failure (401/403) of a request made with the cached
\* token clears that token, and the upload sequence is attempted a second
\* time before upload_video gives up.
C3_ReauthOnce ==
    /\ access_token = None \/ access_token \notin rejected
    /\ \A j \in Jobs :
           ( /\ job[j].pc = "send" /\ job[j].site = "upload_failed"
             /\ job[j].upload_error.status \in AuthStatuses )
           => job[j].creates = 2

\* C4: while an access token is stored, no step contacts the token endpoint.
C4_CredentialReuse == [][access_token # None => tokenCalls' = tokenCalls]_vars

\* C4 case: two jobs uploaded successfully and the token endpoint was called
\* once in total.
C4_Witness ==
    /\ tokenCalls = 1 /\ access_token # None
    /\ \E j, k \in Jobs : j # k /\ job[j].uploaded /\ job[k].uploaded

\* C5: at most one token exchange is in flight, and while one is in flight
\* no other job is inside upload_video issuing requests of its own.
C5_SingleFlight ==
    \A j, k \in Jobs :
        (j # k /\ job[j].pc = "authenticate")
            => job[k].pc \notin { "authenticate", "create", "put" }

\* C5 case: no credential is cached, one job's token exchange is in flight
\* and another job has finished its download and is about to upload.
C5_Witness ==
    \E j, k \in Jobs :
        /\ j # k /\ access_token = None
        /\ job[j].pc = "authenticate" /\ job[k].pc = "edit_uploading"

\* C6: while one job awaits I/O, every other in-flight job can take its
\* next step.
C6_NoJobBlocksAnother ==
    \A j, k \in Jobs :
        (j # k /\ InFlight(j) /\ InFlight(k)) => Runnable(k)

\* C7: for an accepted event, the download is attempted and, when it
\* succeeds, the upload is performed, whatever the notifier does.
C7_NotGatedOnNotifier ==
    \A j \in Jobs :
        (Done(j) /\ job[j].accepted) =>
            /\ job[j].downloaded # "no"
            /\ job[j].downloaded = "ok" => job[j].upload_called

\* C8: the transfer is issued, and the job succeeds, only with a create
\* answer that carries both the remote id and the transfer endpoint.
C8_ProtocolError ==
    \A j \in Jobs :
        /\ job[j].pc \in { "put", "edit_success" } =>
               (job[j].created.id # None /\ job[j].created.url # None)
        /\ job[j].pc = "edit_success" =>
               job[j].video_url = PublicUrl(RemoteId)

\* C9: for an accepted event with caption C, the create request carries C
\* cut to 255 characters, and after a successful upload with remote id R the
\* final text carries C and https://www.dailymotion.com/video/R.
C9_EndToEnd ==
    \A j \in Jobs :
        LET c == job[j].message.caption
        IN  (job[j].accepted /\ c # None /\ Len(c) > 0) =>
              /\ job[j].pc \in { "create", "put" } =>
                     job[j].title_sent = SubSeq(c, 1, Min(Len(c), MaxTitleLen))
              /\ (job[j].pc = "edit_success" /\ job[j].created.id = RemoteId) =>
                     /\ job[j].text.kind = "success"
                     /\ job[j].text.title = c
                     /\ job[j].text.url =
                          <<"https://www.dailymotion.com/video/">> \o RemoteId

\* C10: the upload-failed text carries a limit-reached hint exactly when the
\* error that made the upload fail carries a quota marker.
C10_QuotaHint ==
    \A j \in Jobs :
        (job[j].pc = "send" /\ job[j].site = "upload_failed") =>
            (job[j].text.limit_hint <=> job[j].upload_error.quota)

\* C11: one upload_video call contacts the token endpoint at most twice, and
\* an authorization failure of its request ends the call with a failure.
C11_ReauthBound ==
    \A j \in Jobs :
        /\ job[j].auths <= 2
        /\ job[j].upload_error.status \in AuthStatuses =>
               (job[j].pc = "send" /\ job[j].site = "upload_failed")

\* C11 case: a job obtained a token, the service answered its request with
\* 401/403 and upload_video has returned its failure.
C11_Witness ==
    \E j \in Jobs :
        /\ job[j].pc = "send" /\ job[j].site = "upload_failed"
        /\ job[j].upload_error.status \in AuthStatuses
        /\ job[j].auths = 1

\* What a finished safe_send_message call was given and what it did
SendReturned == call.fn = "safe_send_message" /\ call.returned
\* Attempt i of the call is made: no earlier attempt succeeded
Attempted(outs, i) == \A k \in 1..(i - 1) : outs[k].kind # "ok"

\* C12: when an attempt of safe_send_message is answered with a FloodWait of
\* N seconds and the next attempt succeeds, the call returns the message and
\* the next attempt comes after a sleep of at least N seconds.
C12_FloodBackoff ==
    SendReturned =>
        \A i \in 1..(max_retries - 1) :
            ( /\ Attempted(call.arg, i)
              /\ call.arg[i].kind = "flood" /\ call.arg[i + 1].kind = "ok" )
            => /\ call.out.result = "msg"
               /\ Len(call.out.trace) = 2 * i + 1
               /\ call.out.trace[2 * i - 1] = <<"send", 0>>
               /\ call.out.trace[2 * i][1] = "sleep"
               /\ call.out.trace[2 * i][2] >= call.arg[i].value
               /\ call.out.trace[2 * i + 1] = <<"send", 0>>

\* C12 case: the first attempt met a FloodWait of MaxFloodWait seconds, the
\* second one succeeded and the call has returned.
C12_Witness ==
    /\ SendReturned
    /\ call.arg[1] = [ kind |-> "flood", value |-> MaxFloodWait ]
    /\ call.arg[2].kind = "ok"
    /\ call.out.result = "msg" /\ call.out.attempts = 2

\* C13: a job whose document failed validation never creates a scratch file,
\* downloads nothing, issues no token, create or transfer request, and the
\* only text that reaches the user is the validation-rejection text.
C13_RejectionOnly ==
    \A j \in Jobs :
        job[j].was_rejected =>
            /\ job[j].temp_path = None /\ TempPath(j) \notin files
            /\ job[j].downloaded = "no" /\ ~job[j].upload_called
            /\ job[j].auths = 0 /\ job[j].creates = 0 /\ job[j].puts = 0
            /\ \A i \in 1..Len(job[j].sent) : job[j].sent[i] = RejectText

\* C14: handle_media never ends by propagating an exception.
C14_NeverPropagates == \A j \in Jobs : Done(j) => ~job[j].raised

\* C15: the title sent in the create request is the first 255 characters of
\* the title given when that is longer than 255 characters, and the title
\* itself otherwise.
C15_TitleTruncation ==
    (call.fn = "title" /\ call.returned) =>
        /\ Len(call.arg) > MaxTitleLen =>
               /\ Len(call.out) = MaxTitleLen
               /\ \A i \in 1..MaxTitleLen : call.out[i] = call.arg[i]
        /\ Len(call.arg) <= MaxTitleLen => call.out = call.arg

\* C15 case: a title longer than 255 characters was cut.
C15_Witness ==
    /\ call.fn = "title" /\ call.returned
    /\ Len(call.arg) > MaxTitleLen /\ Len(call.out) = MaxTitleLen

\* C16: within one job the create request and the transfer request are each
\* issued at most once.
C16_AtMostOnce == \A j \in Jobs : job[j].creates <= 1 /\ job[j].puts <= 1

\* C16 case: the transfer failed after one create and one transfer request,
\* and the job reports the failure.
C16_Witness ==
    \E j \in Jobs :
        /\ job[j].pc = "send" /\ job[j].site = "upload_failed"
        /\ job[j].creates = 1 /\ job[j].puts = 1
        /\ job[j].upload_error \in HttpErrors

\* Received = 1, Downloading = 2, Uploading = 3, Succeeded or Failed = 4
Rank(r) ==
    CASE r.pc = "idle" -> 0
      [] r.pc = "send" /\ r.site = "status" -> 1
      [] r.pc = "download" -> 2
      [] r.pc \in { "edit_uploading", "authenticate", "create", "put" } -> 3
      [] OTHER -> 4

\* C17: a job only moves forward through its phases; token, create and
\* transfer requests come only after a download that succeeded; the transfer
\* is issued only from a create answer that carries the endpoint; a download
\* that raises leads to the download-failed text and never to an upload.
C17_PhaseOrder ==
    [][ \A j \in Jobs :
          /\ Rank(job'[j]) >= Rank(job[j])
          /\ (job'[j].auths + job'[j].creates + job'[j].puts > 0
              \/ job'[j].pc \in { "authenticate", "create", "put" })
                 => job'[j].downloaded = "ok"
          /\ job'[j].pc = "put" =>
                 /\ job[j].pc \in { "create", "put" }
                 /\ job'[j].created.url # None
          /\ (job[j].pc = "download" /\ job'[j].downloaded = "failed") =>
                 (job'[j].pc = "send" /\ job'[j].text = DownloadFailedText)
          /\ job'[j].downloaded = "failed" =>
                 (~job'[j].upload_called /\ job'[j].pc \in { "send", "done" })
      ]_vars

\* C17 case: a download raised, the user got the download-failed text and
\* the job ended without entering the upload.
C17_Witness ==
    \E j \in Jobs :
        /\ Done(j) /\ job[j].downloaded = "failed" /\ ~job[j].upload_called
        /\ job[j].sent = << DownloadingText, DownloadFailedText >>

\* Index of the first successful attempt, 0 when there is none
FirstOk(outs) ==
    IF \E i \in 1..max_retries : outs[i].kind = "ok"
    THEN CHOOSE i \in 1..max_retries :
             outs[i].kind = "ok" /\ Attempted(outs, i)
    ELSE 0

C19_FailedExchange ==
    [][ \A j \in Jobs :
          /\ (job[j].pc = "authenticate" /\ job'[j].pc = "send") =>
                 /\ access_token' = access_token /\ access_token' = None
                 /\ job'[j].site = "upload_failed"
                 /\ job'[j].creates = 0 /\ job'[j].puts = 0
          /\ ( /\ job[j].pc = "edit_uploading" /\ job'[j].upload_called
               /\ access_token = None )
                 => job'[j].pc = "authenticate"
      ]_vars

\* C19 case: one job's exchange failed and it reports the upload failure;
\* another job is in a second exchange; no token is cached.
C19_Witness ==
    \E j, k \in Jobs :
        /\ j # k /\ access_token = None /\ tokenCalls = 1
        /\ job[j].pc = "send" /\ job[j].site = "upload_failed"
        /\ job[j].upload_error = AuthFailed /\ job[j].creates = 0
        /\ job[k].pc = "authenticate"

\* C20: the create request is only issued with a non-empty access token.
C20_TokenPresent ==
    \A j \in Jobs : job[j].pc = "create" => job[j].bearer # None

====
